---- MODULE Spec2Model ----
(***************************************************************************)
(* Model of rmc's exporters: blocks_to_svg (src/rmc/exporters/svg.py) and   *)
(* print_text (src/rmc/exporters/markdown.py), entered through the command *)
(* cli (src/rmc/cli.py: convert_rm, pprint_file, convert_text) and through  *)
(* rm_to_svg.                                                               *)
(*                                                                         *)
(* Numbers.  Python floats are modelled as binary fixed point: every        *)
(* coordinate, offset and dimension is an integer counting 1/Scale of a     *)
(* document unit (Scale = 16, so all values are exactly representable as    *)
(* floats and float arithmetic on them is exact).  The text produced by a   *)
(* '.3f' format is modelled by the number it denotes, in thousandths.       *)
(*                                                                         *)
(* Text.  A string is a sequence of characters, a character is its Unicode  *)
(* code point.                                                              *)
(*                                                                         *)
(* Streams.  stdout is standard output (sys.stdout).  output is the stream *)
(* the exporter writes to (the parameter "output" of blocks_to_svg, "fout"  *)
(* of print_text, pprint_file and convert_text) when that stream is not     *)
(* sys.stdout: the file opened by open_output, or, for the format "pdf",    *)
(* the buffer of convert_rm, the file of the caller being fout_pdf.  When   *)
(* open_output yields sys.stdout, what is written and what is printed go    *)
(* to stdout in program order; a run of writes is kept there as one token  *)
(* "fout_write" holding what was written.                                   *)
(***************************************************************************)
EXTENDS Integers, Sequences, FiniteSets, TLC

VARIABLES from_, to, output_path, input, file_idx, debug, text, blocks, pc,
          idx, svg_doc_info, output, stdout, fout_pdf

vars == <<from_, to, output_path, input, file_idx, debug, text, blocks, pc,
          idx, svg_doc_info, output, stdout, fout_pdf>>

\* ------------------------------------------------------------------ bounds
MaxPoints == 3
MaxSegLen == 2
MaxBlocks == 3
MaxParas == 2

\* ------------------------------------------------------------ number model
Scale == 2 ^ 4

None == << >>

Abs(v) == IF v < 0 THEN 0 - v ELSE v

Max(a, b) == IF a >= b THEN a ELSE b

\* math.ceil on a fixed-point value; the result is a whole number of units,
\* kept in 1/Scale like everything else
Ceil(v) == ((v + Scale - 1) \div Scale) * Scale

\* f'{v:.3f}': the nearest multiple of 1/1000, ties to even (the values are
\* exact binary fractions, so a tie is a real tie); result in thousandths
Fmt3(v) == LET n == Abs(v) * 1000
               q == n \div Scale
               r == n % Scale
               m == IF 2 * r < Scale THEN q
                    ELSE IF 2 * r > Scale THEN q + 1
                    ELSE IF q % 2 = 0 THEN q ELSE q + 1
           IN  IF v < 0 THEN 0 - m ELSE m

\* ---------------------------------------------------------------- constants
SCREEN_WIDTH == 1404
XPOS_SHIFT == (SCREEN_WIDTH * Scale) \div 2

\* ------------------------------------------------------------------- limits
NoLimits == [xmin |-> None, xmax |-> None, ymin |-> None, ymax |-> None]

\* "if xmin is None or xmin > v: xmin = v"
Lower(cur, v) == IF cur = None \/ cur[1] > v THEN <<v>> ELSE cur
\* "if xmax is None or xmax < v: xmax = v"
Upper(cur, v) == IF cur = None \/ cur[1] < v THEN <<v>> ELSE cur

RECURSIVE stroke_limits_loop(_, _, _)
stroke_limits_loop(points, i, lim) ==
    IF i > Len(points) THEN lim
    ELSE stroke_limits_loop(points, i + 1,
             [xmin |-> Lower(lim.xmin, points[i].x),
              xmax |-> Upper(lim.xmax, points[i].x),
              ymin |-> Lower(lim.ymin, points[i].y),
              ymax |-> Upper(lim.ymax, points[i].y)])

get_limits_stroke(block) ==
    IF block.item = None THEN NoLimits
    ELSE stroke_limits_loop(block.item[1].points, 1, NoLimits)

get_limits_highlight(block) ==
    IF block.item # None
    THEN LET rectangle == block.item[1].rectangles[1]
         IN  [xmin |-> <<rectangle.x>>,
              xmax |-> <<rectangle.x + rectangle.w>>,
              ymin |-> <<rectangle.y>>,
              ymax |-> <<rectangle.y + rectangle.h>>]
    ELSE NoLimits

RECURSIVE limits_loop(_, _, _)
limits_loop(bs, i, lim) ==
    IF i > Len(bs) THEN lim
    ELSE LET block == bs[i]
             tmp == IF block.kind = "SceneLineItemBlock"
                        THEN get_limits_stroke(block)
                    ELSE IF block.kind = "SceneGlyphItemBlock"
                        THEN get_limits_highlight(block)
                    ELSE NoLimits
         IN  IF block.kind \notin {"SceneLineItemBlock", "SceneGlyphItemBlock"}
                 THEN limits_loop(bs, i + 1, lim)
             ELSE IF tmp.xmin = None
                 THEN limits_loop(bs, i + 1, lim)
             ELSE limits_loop(bs, i + 1,
                      [xmin |-> Lower(lim.xmin, tmp.xmin[1]),
                       xmax |-> Upper(lim.xmax, tmp.xmax[1]),
                       ymin |-> Lower(lim.ymin, tmp.ymin[1]),
                       ymax |-> Upper(lim.ymax, tmp.ymax[1])])

get_limits(bs) == limits_loop(bs, 1, NoLimits)

\* --------------------------------------------------------------- dimensions
\* get_dimensions either returns an SvgDocInfo or raises: "ymin < 0" with
\* ymin = None is a TypeError in Python 3.  The result is None when it raises,
\* <<SvgDocInfo>> otherwise.
get_dimensions_grow(bs) ==
    LET lim == get_limits(bs)
        width == Ceil(IF lim.xmin # None /\ lim.xmax # None
                      THEN lim.xmax[1] - lim.xmin[1] ELSE 0)
        height == Ceil(IF lim.ymin # None /\ lim.ymax # None
                       THEN lim.ymax[1] - lim.ymin[1] ELSE 0)
    IN  IF lim.ymin = None THEN None
        ELSE <<[height |-> IF lim.ymin[1] < 0 THEN height - lim.ymin[1]
                                               ELSE height,
                width |-> width,
                xpos_delta |-> Max(XPOS_SHIFT, width \div 2),
                ypos_delta |-> 0]>>
get_dimensions(bs) ==
    LET lim == get_limits(bs)
        width == Ceil(IF lim.xmin # None /\ lim.xmax # None
                      THEN lim.xmax[1] - lim.xmin[1] ELSE 0)
        height == Ceil(IF lim.ymin # None /\ lim.ymax # None
                       THEN lim.ymax[1] - lim.ymin[1] ELSE 0)
        xpos_delta == Max(XPOS_SHIFT, width \div 2)
        ypos_delta == 0
    IN  IF lim.ymin = None THEN None
        ELSE <<[height |-> IF lim.ymin[1] < 0 THEN height + lim.ymin[1]
                                               ELSE height,
                width |-> width,
                xpos_delta |-> xpos_delta,
                ypos_delta |-> ypos_delta]>>

\* ------------------------------------------------------------------ strings
\* the characters str.strip() removes: those for which str.isspace() holds
\* (tab, newline, vertical tab, form feed, carriage return, the separators
\* 28..31, space, NEL, no-break space and the Unicode spaces)
Whitespace ==
    (9..13) \cup (28..32) \cup {133, 160, 5760} \cup (8192..8202)
        \cup {8232, 8233, 8239, 8287, 12288}

RECURSIVE LStrip(_)
LStrip(s) == IF s # << >> /\ Head(s) \in Whitespace THEN LStrip(Tail(s)) ELSE s

RECURSIVE RStrip(_)
RStrip(s) == IF s # << >> /\ s[Len(s)] \in Whitespace
             THEN RStrip(SubSeq(s, 1, Len(s) - 1)) ELSE s

\* str.strip()
Strip(s) == RStrip(LStrip(s))

\* ---------------------------------------------------------------------- pen
\* Pen.create(tool, color, thickness_scale) of rmc.exporters.writing_tools:
\* only the segment length of the pen takes part in the structure of the
\* output; colour, width and opacity are attribute text of the polyline
PenCreate(item) == [segment_length |-> item.segment_length]

\* ------------------------------------------------------------- draw_stroke
\* the filter attribute chosen from the tool name
StrokeFilter(item) ==
    IF item.tool = "MECHANICAL_PENCIL_2" THEN "mechPencilTexture"
    ELSE IF item.tool = "PENCIL_2" THEN "pencilTexture"
    ELSE ""

\* "if point_id % pen.segment_length == 0" (point_id counts from 0)
StartsPolylineEvery(point_id, segment_length) == TRUE
StartsPolyline(point_id, segment_length) == point_id % segment_length = 0

\* "if last_xpos != -1." : join to the previous polyline segment
JoinsNever(point_id, last_xpos) == FALSE
Joins(point_id, last_xpos) == last_xpos # 0 - Scale

\* "xpos = point.x + svg_doc_info.xpos_delta"
TranslateNone(v, delta) == v
Translate(v, delta) == v + delta

\* f'{xpos:.3f},{ypos:.3f} '
Vertex(role, xpos, ypos) ==
    [t |-> "vertex", role |-> role, x |-> Fmt3(xpos), y |-> Fmt3(ypos)]

\* the body of "for point_id, point in enumerate(item.points)"; i is
\* point_id + 1
RECURSIVE stroke_loop(_, _, _, _, _, _, _)
stroke_loop(points, i, pen, filter, info, last, out) ==
    IF i > Len(points) THEN out
    ELSE LET point == points[i]
             xpos == Translate(point.x, info.xpos_delta)
             ypos == Translate(point.y, info.ypos_delta)
             start == IF StartsPolyline(i - 1, pen.segment_length)
                      THEN <<[t |-> "polyline_close"],
                             [t |-> "polyline_open", filter |-> filter]>>
                      ELSE << >>
             join == IF Joins(i - 1, last.xpos)
                     THEN <<Vertex("join", last.xpos, last.ypos)>>
                     ELSE << >>
         IN  stroke_loop(points, i + 1, pen, filter, info,
                         [xpos |-> xpos, ypos |-> ypos],
                         out \o start \o join
                             \o <<Vertex("point", xpos, ypos)>>)

\* what draw_stroke writes to output (debug = 0: nothing is printed)
draw_stroke(block, info) ==
    LET head == <<[t |-> "comment", what |-> "SceneLineItemBlock"]>>
    IN  IF block.item = None THEN head
        ELSE LET item == block.item[1]
                 pen == PenCreate(item)
             IN  stroke_loop(item.points, 1, pen, StrokeFilter(item), info,
                             [xpos |-> 0 - Scale, ypos |-> 0 - Scale],
                             head \o <<[t |-> "comment", what |-> "Stroke"],
                                       [t |-> "g_open"]>>)
                 \o <<[t |-> "polyline_close"], [t |-> "g_close"]>>

\* ---------------------------------------------------------- draw_highlight
\* the rectangle is written with f'{xpos}': the exact value, in 1/Scale;
\* fill-opacity:0.5 is Scale \div 2
draw_highlight(block, info) ==
    IF block.item # None
    THEN LET rectangle == block.item[1].rectangles[1]
             xpos == rectangle.x + info.xpos_delta
             ypos == rectangle.y + info.ypos_delta
         IN  <<[t |-> "comment", what |-> "SceneGlyphItemBlock"],
               [t |-> "rect", x |-> xpos, y |-> ypos,
                w |-> rectangle.w, h |-> rectangle.h,
                fill_opacity |-> Scale \div 2]>>
    ELSE << >>

\* print(f"GlyphRange: ...") of draw_highlight
draw_highlight_print(block) ==
    IF block.item # None THEN <<[t |-> "print_glyphrange"]>> ELSE << >>

\* ---------------------------------------------------------------- draw_text
\* "xpos = pos_x + width / 2", "ypos = pos_y + height / 2": height need not
\* be even in 1/Scale, so the anchor is kept in 1/(2 * Scale).
\* A text item has a value and may have no attribute "text" (item.text is
\* None then): the guard reads item.value, the element text reads item.text,
\* and reading the missing attribute raises AttributeError before anything
\* of the <text> line is written.  The result is what was written and
\* whether the loop raised.
RECURSIVE text_loop(_, _, _, _, _)
text_loop(items, i, value, info, out) ==
    IF i > Len(items) THEN [out |-> out, raised |-> FALSE]
    ELSE LET xpos2 == 2 * value.pos_x + info.width
             ypos2 == 2 * value.pos_y + info.height
             item == items[i]
             head == out \o <<[t |-> "comment", what |-> "TextItem"]>>
         IN  IF Strip(item.value) = << >>
                 THEN text_loop(items, i + 1, value, info, head)
             ELSE IF item.text = None
                 THEN [out |-> head, raised |-> TRUE]
             ELSE text_loop(items, i + 1, value, info,
                      head \o <<[t |-> "text", x2 |-> xpos2, y2 |-> ypos2,
                                 s |-> Strip(item.text[1])]>>)

draw_text(block, info) ==
    text_loop(block.value.items, 1, block.value, info,
              <<[t |-> "comment", what |-> "RootTextBlock"],
                [t |-> "style"]>>)

\* "if debug > 0: print('----RootTextBlock')"
draw_text_print(dbg) ==
    IF dbg > 0 THEN <<[t |-> "print_RootTextBlock"]>> ELSE << >>

\* "if debug > 0: print('----SceneLineItemBlock')"
draw_stroke_print(dbg) ==
    IF dbg > 0 THEN <<[t |-> "print_SceneLineItemBlock"]>> ELSE << >>

\* --------------------------------------------------------------- print_text
\* print(x, file=fout) writes x and a newline (10); 42 is "*", 35 is "#",
\* 32 is " "
PrintTo(fout, x) == fout \o x \o <<10>>

\* print_text tells five paragraph styles apart; any other value of the
\* ParagraphStyle enumeration takes the final else branch.
\* one paragraph of doc.contents: what goes to fout
paragraph_fout(p, fout) ==
    LET line == Strip(p.text)
    IN  IF line # << >>
        THEN IF p.style = "BULLET"
                 THEN PrintTo(fout, <<42, 32>> \o line \o <<10>>)
             ELSE IF p.style = "BULLET2"
                 THEN PrintTo(fout, <<32, 32, 42, 32>> \o line \o <<10>>)
             ELSE IF p.style = "BOLD"
                 THEN PrintTo(fout, <<42, 42>> \o line \o <<42, 42, 10>>)
             ELSE IF p.style = "HEADING"
                 THEN PrintTo(fout, <<35, 32>> \o line \o <<10>>)
             ELSE IF p.style = "PLAIN"
                 THEN PrintTo(fout, line \o <<10>>)
             ELSE fout
        ELSE fout

\* one paragraph of doc.contents: what is printed on standard output
paragraph_stdout(p, out) ==
    LET line == Strip(p.text)
    IN  IF line # << >>
        THEN IF p.style \in {"BULLET", "BULLET2", "BOLD", "HEADING", "PLAIN"}
             THEN out
             ELSE out \o <<[t |-> "unknown_format", style |-> p.style,
                            line |-> line]>>
        ELSE out \o <<[t |-> "blank_line", style |-> p.style]>>

\* a write to the exporter's stream, as it stands among the prints
Wr(data) == IF data = << >> THEN << >>
            ELSE <<[t |-> "fout_write", data |-> data]>>

\* "for p in doc.contents": the writes and prints in program order (a
\* paragraph gives either one write or one print)
RECURSIVE paragraphs_loop(_, _, _)
paragraphs_loop(contents, i, trace) ==
    IF i > Len(contents) THEN trace
    ELSE paragraphs_loop(contents, i + 1,
             trace \o Wr(paragraph_fout(contents[i], << >>))
                   \o paragraph_stdout(contents[i], << >>))

\* ------------------------------------------------------------ blocks_to_svg
\* what blocks_to_svg writes before the loop over the blocks; the centerline
\* is at width / 2, kept in 1/(2 * Scale)
svg_shell_head(info) ==
    <<[t |-> "svg_header", height |-> info.height, width |-> info.width],
      [t |-> "page_open"],
      [t |-> "filter_blurMe"],
      [t |-> "centerline", x2 |-> info.width, height |-> info.height]>>

\* what blocks_to_svg writes after the loop
svg_shell_foot ==
    <<[t |-> "comment", what |-> "clickable rect"],
      [t |-> "page_close"],
      [t |-> "svg_close"]>>

\* "for idx, block in enumerate(blocks)"
BlockAtReversed(bs, i) == bs[Len(bs) + 1 - i]
BlockAt(bs, i) == bs[i]

\* one iteration of the loop of blocks_to_svg: the writes and prints in
\* program order; draw_stroke and draw_text print before they write,
\* draw_highlight prints between its comment and its rectangle
block_trace(block, info, dbg) ==
    IF block.kind = "SceneLineItemBlock"
        THEN draw_stroke_print(dbg) \o Wr(draw_stroke(block, info))
    ELSE IF block.kind = "RootTextBlock"
        THEN <<[t |-> "warning_text"]>> \o draw_text_print(dbg)
                 \o Wr(draw_text(block, info).out)
    ELSE IF block.kind = "SceneGlyphItemBlock"
        THEN LET w == draw_highlight(block, info)
             IN  IF w = << >> THEN << >>
                 ELSE Wr(<<w[1]>>) \o draw_highlight_print(block)
                          \o Wr(Tail(w))
    ELSE IF block.kind = "PageInfoBlock" THEN <<[t |-> "print_block"]>>
    ELSE <<[t |-> "not_converting", class |-> block.kind]>>

\* one iteration of the loop of blocks_to_svg raises: draw_text does
block_raises(block, info) ==
    block.kind = "RootTextBlock" /\ draw_text(block, info).raised

\* ------------------------------------------------------------------- inputs
PA == [x |-> 0 - 703 * Scale, y |-> 5 * Scale]
PB == [x |-> 0, y |-> 0]
PC == [x |-> 10 * Scale + 1, y |-> 0 - (5 * Scale + 1)]
PD == [x |-> 1500 * Scale, y |-> 20 * Scale + 8]
PointChoices == {PA, PB, PC, PD}

Tools == {"BALLPOINT_1", "MECHANICAL_PENCIL_2", "PENCIL_2"}

LineBlock(item) == [kind |-> "SceneLineItemBlock", item |-> item]
GlyphBlock(item) == [kind |-> "SceneGlyphItemBlock", item |-> item]
TextBlock(value) == [kind |-> "RootTextBlock", value |-> value]
PageInfoBlock == [kind |-> "PageInfoBlock"]
OtherBlock == [kind |-> "AuthorIdsBlock"]

Rect(x, y, w, h) == [x |-> x, y |-> y, w |-> w, h |-> h]

R1 == Rect(10 * Scale, 20 * Scale, 5 * Scale, 2 * Scale)
R2 == Rect(0 - 800 * Scale, 0 - (3 * Scale + 4), 2000 * Scale + 1, 2 * Scale)

Stroke(tool, segment_length, points) ==
    [tool |-> tool, segment_length |-> segment_length, points |-> points]

RichStrokes ==
    {Stroke(tl, sl, ps) : tl \in Tools, sl \in 1..MaxSegLen,
       ps \in UNION {[1..n -> PointChoices] : n \in 0..MaxPoints}}

\* a text item as rmscene's sequence items are: a value and no attribute
\* "text"
Item(value) == [value |-> value, text |-> None]

\* a text item that also carries an attribute "text"
ItemWithText(value, txt) == [value |-> value, text |-> <<txt>>]

\* items "a" and " "
SmallText ==
    TextBlock([pos_x |-> 0 - 100 * Scale, pos_y |-> 50 * Scale,
               items |-> <<Item(<<97>>), Item(<<32>>)>>,
               paras |-> << [style |-> "PLAIN", text |-> <<97>>] >>])

\* items " " and "a" with text " b "
TextWithAttr ==
    TextBlock([pos_x |-> 1 * Scale, pos_y |-> 0 - 1 * Scale,
               items |-> <<Item(<<32>>), ItemWithText(<<97>>, <<32, 98, 32>>)>>,
               paras |-> << >>])

SmallBlocks ==
    {LineBlock(None),
     LineBlock(<<Stroke("BALLPOINT_1", 1, << >>)>>),
     LineBlock(<<Stroke("BALLPOINT_1", 1, <<PB, PC>>)>>),
     LineBlock(<<Stroke("PENCIL_2", 2, <<PD>>)>>),
     GlyphBlock(None),
     GlyphBlock(<<[rectangles |-> <<R1>>]>>),
     GlyphBlock(<<[rectangles |-> <<R2, R1>>]>>),
     SmallText,
     TextWithAttr,
     PageInfoBlock,
     OtherBlock}

Anchors == {GlyphBlock(<<[rectangles |-> <<R1>>]>>), OtherBlock}

SvgDocs ==
    UNION {[1..n -> SmallBlocks] : n \in 0..MaxBlocks}
    \cup {<<a, LineBlock(<<s>>)>> : a \in Anchors, s \in RichStrokes}

Styles == {"BULLET", "BULLET2", "BOLD", "HEADING", "PLAIN", "CHECKBOX"}
\* " ", "T", " a\n" and "\ra"
Texts == {<<32>>, <<84>>, <<32, 97, 10>>, <<13, 97>>}
Paragraphs == {[style |-> st, text |-> tx] : st \in Styles, tx \in Texts}

RichTexts ==
    {TextBlock([pos_x |-> 0, pos_y |-> 0, items |-> << >>, paras |-> ps]) :
       ps \in UNION {[1..n -> Paragraphs] : n \in 0..MaxParas}}

MdDocs ==
    {<<tb>> : tb \in RichTexts}
    \cup {<<OtherBlock, tb>> : tb \in RichTexts}
    \cup {<<tb, SmallText>> : tb \in RichTexts}
    \cup {<< >>}

\* documents for rm_to_svg
PlainDocs == UNION {[1..n -> SmallBlocks] : n \in 0..1}

\* a text block with the paragraphs (PLAIN, "T") and (CHECKBOX, "T")
TwoParagraphs ==
    TextBlock([pos_x |-> 0, pos_y |-> 0, items |-> << >>,
               paras |-> <<[style |-> "PLAIN", text |-> <<84>>],
                           [style |-> "CHECKBOX", text |-> <<84>>]>>])

\* documents for the runs of cli over its options and over several inputs
TinyDocs ==
    {<< >>,
     <<GlyphBlock(<<[rectangles |-> <<R1>>]>>), OtherBlock>>,
     <<LineBlock(<<Stroke("BALLPOINT_1", 1, <<PB, PC>>)>>), SmallText>>,
     <<GlyphBlock(<<[rectangles |-> <<R1>>]>>), TwoParagraphs>>}

\* an input file: the suffix of its name and what reading it gives
\* (read_blocks for a reMarkable file, read_text for a text file)
RmFile(doc) == [suffix |-> ".rm", blocks |-> doc, text |-> << >>]
MdFile(suffix, txt) == [suffix |-> suffix, blocks |-> << >>, text |-> txt]
SvgFile == [suffix |-> ".svg", blocks |-> << >>, text |-> << >>]

RmFiles == {RmFile(d) : d \in TinyDocs}
MdFiles == {MdFile(".md", <<84, 10>>), MdFile(".markdown", <<97>>)}

\* the formats convert_rm knows
KnownFormats == {"blocks", "blocks-data", "markdown", "svg", "pdf"}

\* the option values: --from, --to and the suffix of --output (None: absent)
FromOptions == {None, <<"rm">>, <<"markdown">>, <<"svg">>}
ToOptions == {None, <<"rm">>, <<"txt">>} \cup {<<f>> : f \in KnownFormats}
OutputOptions == {None, <<".svg">>, <<".pdf">>, <<".md">>, <<".txt">>}

\* the input files of one run: files of one kind, at most two
Inputs(from) ==
    LET rm == UNION {[1..n -> RmFiles] : n \in 0..2}
        md == UNION {[1..n -> MdFiles] : n \in 1..2}
    IN  IF from = None THEN rm \cup md \cup {<<SvgFile>>}
        ELSE IF from = <<"rm">> THEN rm
        ELSE IF from = <<"markdown">> THEN md \cup {<< >>}
        ELSE {<< >>, <<SvgFile>>}

\* debug levels of rm_to_svg; convert_rm leaves the default, 0
Debugs == {0 - 1, 0, 1}

\* guess_format(p), from the suffix of p
guess_format(suffix) ==
    IF suffix = ".rm" THEN "rm"
    ELSE IF suffix = ".svg" THEN "svg"
    ELSE IF suffix = ".pdf" THEN "pdf"
    ELSE IF suffix = ".md" \/ suffix = ".markdown" THEN "markdown"
    ELSE "blocks"

\* open_output: fout is sys.stdout when there is no --output and the format
\* is not binary; blocks_to_svg for "pdf" writes to the buffer
FoutIsStdout ==
    to # None /\ output_path = None /\ to[1] \notin {"pdf", "rm"}

\* what a trace of writes and prints adds to the exporter's stream
RECURSIVE Written(_)
Written(trace) ==
    IF trace = << >> THEN << >>
    ELSE (IF Head(trace).t = "fout_write" THEN Head(trace).data ELSE << >>)
             \o Written(Tail(trace))

\* what a trace of writes and prints adds to standard output when the
\* exporter's stream is another one
Printed(trace) == SelectSeq(trace, LAMBDA tok : tok.t # "fout_write")

\* the writes and prints of one step reach the streams
Emit(trace) ==
    /\ output' = IF FoutIsStdout THEN output ELSE output \o Written(trace)
    /\ stdout' = stdout \o (IF FoutIsStdout THEN trace ELSE Printed(trace))

\* ------------------------------------------------------------ state machine
\* two entry points: cli (the command) and rm_to_svg.  The runs of cli are
\* those over one reMarkable file with an output file, for the formats svg
\* and markdown, and those over small files for every choice of options.
Init ==
    /\ \/ /\ pc = "cli"
          /\ from_ = <<"rm">>
          /\ \/ /\ to = <<"svg">>
                /\ output_path = <<".svg">>
                /\ input \in {<<RmFile(d)>> : d \in SvgDocs}
             \/ /\ to = <<"markdown">>
                /\ output_path = <<".md">>
                /\ input \in {<<RmFile(d)>> : d \in MdDocs}
          /\ debug = 0
          /\ blocks = << >>
       \/ /\ pc = "cli"
          /\ from_ \in FromOptions
          /\ to \in ToOptions
          /\ output_path \in OutputOptions
          /\ input \in Inputs(from_)
          /\ debug = 0
          /\ blocks = << >>
       \/ /\ pc = "rm_to_svg"
          /\ from_ = <<"rm">>
          /\ to = <<"svg">>
          /\ output_path = <<".svg">>
          /\ input = << >>
          /\ debug \in Debugs
          /\ blocks \in PlainDocs
    /\ file_idx = 0
    /\ text = << >>
    /\ idx = 0
    /\ svg_doc_info = None
    /\ output = << >>
    /\ stdout = << >>
    /\ fout_pdf = None

\* cli: "Must specify input filename or --from"
cli_no_input ==
    /\ pc = "cli"
    /\ from_ = None /\ input = << >>
    /\ pc' = "usage_error"
    /\ UNCHANGED <<from_, to, output_path, input, file_idx, debug, text, blocks,
                   idx, svg_doc_info, output, stdout, fout_pdf>>

\* cli: "from_ = guess_format(input[0])"
cli_from(from, inp) ==
    IF from = None THEN <<guess_format(inp[1].suffix)>> ELSE from

\* cli: "Must specify --output or --to"
cli_no_output ==
    /\ pc = "cli"
    /\ ~(from_ = None /\ input = << >>)
    /\ to = None /\ output_path = None
    /\ from_' = cli_from(from_, input)
    /\ pc' = "usage_error"
    /\ UNCHANGED <<to, output_path, input, file_idx, debug, text, blocks,
                   idx, svg_doc_info, output, stdout, fout_pdf>>

\* cli: "to = guess_format(output)"
cli_to(t, path) == IF t = None THEN <<guess_format(path[1])>> ELSE t

\* cli: "source format %s not implemented yet"
cli_not_implemented ==
    /\ pc = "cli"
    /\ ~(from_ = None /\ input = << >>)
    /\ ~(to = None /\ output_path = None)
    /\ cli_from(from_, input)[1] \notin {"rm", "markdown"}
    /\ from_' = cli_from(from_, input)
    /\ to' = cli_to(to, output_path)
    /\ pc' = "usage_error"
    /\ UNCHANGED <<output_path, input, file_idx, debug, text, blocks,
                   idx, svg_doc_info, output, stdout, fout_pdf>>

\* cli, from_ == "rm": open_output, then "for fn in input"
cli_rm ==
    /\ pc = "cli"
    /\ ~(from_ = None /\ input = << >>)
    /\ ~(to = None /\ output_path = None)
    /\ cli_from(from_, input)[1] = "rm"
    /\ from_' = cli_from(from_, input)
    /\ to' = cli_to(to, output_path)
    /\ pc' = IF input = << >> THEN "exit" ELSE "start"
    /\ UNCHANGED <<output_path, input, file_idx, debug, text, blocks,
                   idx, svg_doc_info, output, stdout, fout_pdf>>

\* "".join(Path(fn).read_text() for fn in input)
RECURSIVE join(_)
join(inp) == IF inp = << >> THEN << >> ELSE Head(inp).text \o join(Tail(inp))

\* cli, from_ == "markdown": the text of the inputs, open_output, convert_text
cli_markdown ==
    /\ pc = "cli"
    /\ ~(from_ = None /\ input = << >>)
    /\ ~(to = None /\ output_path = None)
    /\ cli_from(from_, input)[1] = "markdown"
    /\ from_' = cli_from(from_, input)
    /\ to' = cli_to(to, output_path)
    /\ text' = join(input)
    /\ pc' = "convert_text"
    /\ UNCHANGED <<output_path, input, file_idx, debug, blocks,
                   idx, svg_doc_info, output, stdout, fout_pdf>>

\* cli, "for fn in input": convert_rm has returned and a file is left
cli_for ==
    /\ pc = "done"
    /\ file_idx < Len(input)
    /\ pc' = "start"
    /\ UNCHANGED <<from_, to, output_path, input, file_idx, debug, text, blocks,
                   idx, svg_doc_info, output, stdout, fout_pdf>>

\* convert_rm on the next file: open it, then the exporter chosen by "to";
\* read_blocks for "markdown", "svg" and "pdf" (pprint_file reads the file
\* itself), and for "pdf" a new buffer for blocks_to_svg
convert_rm ==
    /\ pc = "start"
    /\ to[1] \in KnownFormats
    /\ file_idx' = file_idx + 1
    /\ blocks' = IF to[1] \in {"markdown", "svg", "pdf"}
                 THEN input[file_idx'].blocks ELSE blocks
    /\ output' = IF to[1] = "pdf" THEN << >> ELSE output
    /\ idx' = 0
    /\ svg_doc_info' = None
    /\ pc' = IF to[1] = "pdf" THEN "svg" ELSE to[1]
    /\ UNCHANGED <<from_, to, output_path, input, debug, text, stdout, fout_pdf>>

\* convert_rm: "raise click.UsageError('Unknown format %s' % to)"
convert_rm_unknown ==
    /\ pc = "start"
    /\ to[1] \notin KnownFormats
    /\ file_idx' = file_idx + 1
    /\ pc' = "usage_error"
    /\ UNCHANGED <<from_, to, output_path, input, debug, text, blocks,
                   idx, svg_doc_info, output, stdout, fout_pdf>>

\* rm_to_svg: read_blocks, then blocks_to_svg(blocks, outfile, debug)
rm_to_svg ==
    /\ pc = "rm_to_svg"
    /\ pc' = "svg"
    /\ UNCHANGED <<from_, to, output_path, input, file_idx, debug, text, blocks,
                   idx, svg_doc_info, output, stdout, fout_pdf>>

\* pprint_file: a newline and the pretty-printed block, for every block;
\* "blocks" prints with data (depth None), "blocks-data" without (depth 1)
pprint_file ==
    /\ pc \in {"blocks", "blocks-data"}
    /\ LET data == (pc = "blocks")
           depth == IF data THEN None ELSE <<1>>
           result == input[file_idx].blocks
           RECURSIVE result_loop(_, _)
           result_loop(i, out) ==
               IF i > Len(result) THEN out
               ELSE result_loop(i + 1,
                        out \o <<[t |-> "newline"],
                                 [t |-> "pprint", el |-> result[i],
                                  depth |-> depth]>>)
       IN  Emit(Wr(result_loop(1, << >>)))
    /\ pc' = "done"
    /\ UNCHANGED <<from_, to, output_path, input, file_idx, debug, text, blocks,
                   idx, svg_doc_info, fout_pdf>>

\* the prints of get_dimensions, "if debug >= 0"
get_dimensions_print(dbg, what) ==
    IF dbg >= 0 THEN <<[t |-> what]>> ELSE << >>

\* blocks_to_svg up to the loop, when get_dimensions raises
blocks_to_svg_raise ==
    /\ pc = "svg"
    /\ get_dimensions(blocks) = None
    /\ Emit(get_dimensions_print(debug, "print_limits"))
    /\ pc' = "raised"
    /\ UNCHANGED <<from_, to, output_path, input, file_idx, debug, text, blocks,
                   idx, svg_doc_info, fout_pdf>>

\* blocks_to_svg up to the loop, when get_dimensions returns
blocks_to_svg_begin ==
    /\ pc = "svg"
    /\ get_dimensions(blocks) # None
    /\ svg_doc_info' = get_dimensions(blocks)
    /\ Emit(get_dimensions_print(debug, "print_limits")
                \o get_dimensions_print(debug, "print_dimensions")
                \o Wr(svg_shell_head(svg_doc_info'[1])))
    /\ idx' = 1
    /\ pc' = "loop"
    /\ UNCHANGED <<from_, to, output_path, input, file_idx, debug, text, blocks,
                   fout_pdf>>

\* one iteration of the loop of blocks_to_svg
LoopBody ==
    /\ Emit(block_trace(BlockAt(blocks, idx), svg_doc_info[1], debug))
    /\ idx' = idx + 1
    /\ UNCHANGED <<from_, to, output_path, input, file_idx, debug, text, blocks,
                   pc, svg_doc_info, fout_pdf>>

KnownKinds == {"SceneLineItemBlock", "RootTextBlock", "SceneGlyphItemBlock",
               "PageInfoBlock"}

loop_stroke ==
    /\ pc = "loop"
    /\ idx <= Len(blocks)
    /\ BlockAt(blocks, idx).kind = "SceneLineItemBlock"
    /\ LoopBody

loop_text ==
    /\ pc = "loop"
    /\ idx <= Len(blocks)
    /\ BlockAt(blocks, idx).kind = "RootTextBlock"
    /\ ~block_raises(BlockAt(blocks, idx), svg_doc_info[1])
    /\ LoopBody

\* the iteration on a text block in which draw_text raises: what was written
\* and printed before stays, and blocks_to_svg ends there
loop_text_raise ==
    /\ pc = "loop"
    /\ idx <= Len(blocks)
    /\ BlockAt(blocks, idx).kind = "RootTextBlock"
    /\ block_raises(BlockAt(blocks, idx), svg_doc_info[1])
    /\ Emit(block_trace(BlockAt(blocks, idx), svg_doc_info[1], debug))
    /\ pc' = "raised"
    /\ UNCHANGED <<from_, to, output_path, input, file_idx, debug, text, blocks,
                   idx, svg_doc_info, fout_pdf>>

loop_highlight ==
    /\ pc = "loop"
    /\ idx <= Len(blocks)
    /\ BlockAt(blocks, idx).kind = "SceneGlyphItemBlock"
    /\ LoopBody

loop_pageinfo ==
    /\ pc = "loop"
    /\ idx <= Len(blocks)
    /\ BlockAt(blocks, idx).kind = "PageInfoBlock"
    /\ LoopBody

loop_other ==
    /\ pc = "loop"
    /\ idx <= Len(blocks)
    /\ BlockAt(blocks, idx).kind \notin KnownKinds
    /\ LoopBody

\* blocks_to_svg after the loop; for "pdf" the buffer then goes to svg_to_pdf
blocks_to_svg_end ==
    /\ pc = "loop"
    /\ idx > Len(blocks)
    /\ Emit(Wr(svg_shell_foot))
    /\ pc' = IF to[1] = "pdf" THEN "svg_to_pdf" ELSE "done"
    /\ UNCHANGED <<from_, to, output_path, input, file_idx, debug, text, blocks,
                   idx, svg_doc_info, fout_pdf>>

\* svg_to_pdf(buf, fout) of rmc.exporters.pdf: the PDF made from the SVG text
svg_to_pdf(buf) == <<[t |-> "pdf", svg |-> buf]>>

\* convert_rm, "pdf": buf.seek(0); svg_to_pdf(buf, fout)
convert_rm_pdf ==
    /\ pc = "svg_to_pdf"
    /\ fout_pdf' = fout_pdf \o svg_to_pdf(output)
    /\ pc' = "done"
    /\ UNCHANGED <<from_, to, output_path, input, file_idx, debug, text, blocks,
                   idx, svg_doc_info, output, stdout>>

\* convert_text: write_blocks(fout, simple_text_document(text)); both are
\* rmscene's, and fout receives the blocks of the document made of the text
convert_text ==
    /\ pc = "convert_text"
    /\ Emit(Wr(<<[t |-> "write_blocks",
                  blocks |-> [t |-> "simple_text_document",
                              text |-> text]]>>))
    /\ pc' = "exit"
    /\ UNCHANGED <<from_, to, output_path, input, file_idx, debug, text, blocks,
                   idx, svg_doc_info, fout_pdf>>

\* print_text: the whole call
print_text ==
    /\ pc = "markdown"
    /\ LET RECURSIVE blocks_loop(_, _)
           blocks_loop(i, trace) ==
               IF i > Len(blocks) THEN trace
               ELSE IF blocks[i].kind = "RootTextBlock"
                    THEN blocks_loop(i + 1,
                             paragraphs_loop(blocks[i].value.paras, 1,
                                 trace \o <<[t |-> "processing_text_block"]>>))
                    ELSE blocks_loop(i + 1, trace)
       IN  Emit(blocks_loop(1, << >>))
    /\ idx' = Len(blocks) + 1
    /\ pc' = "done"
    /\ UNCHANGED <<from_, to, output_path, input, file_idx, debug, text, blocks,
                   svg_doc_info, fout_pdf>>

Next ==
    \/ cli_no_input
    \/ cli_no_output
    \/ cli_not_implemented
    \/ cli_rm
    \/ cli_markdown
    \/ cli_for
    \/ convert_rm
    \/ convert_rm_unknown
    \/ rm_to_svg
    \/ pprint_file
    \/ blocks_to_svg_raise
    \/ blocks_to_svg_begin
    \/ loop_stroke
    \/ loop_text
    \/ loop_text_raise
    \/ loop_highlight
    \/ loop_pageinfo
    \/ loop_other
    \/ blocks_to_svg_end
    \/ convert_rm_pdf
    \/ print_text
    \/ convert_text

Spec == Init /\ [][Next]_vars

\* ------------------------------------------------- reading the output back
\* blocks_to_svg has written the header: it is in its loop, has returned, or
\* has raised in the loop
InSvg == svg_doc_info # None

\* blocks_to_svg was called for the format svg and get_dimensions has
\* returned or raised
SvgRan == to = <<"svg">> /\ pc \in {"loop", "done", "raised"}

\* what has been written to the exporter's stream
Fout == IF FoutIsStdout THEN Written(stdout) ELSE output

\* what has been printed
Prints == IF FoutIsStdout THEN Printed(stdout) ELSE stdout

\* the last position in seq of a token of type t, 0 when there is none
RECURSIVE LastPosFrom(_, _, _)
LastPosFrom(seq, i, t) ==
    IF i = 0 THEN 0
    ELSE IF seq[i].t = t THEN i ELSE LastPosFrom(seq, i - 1, t)

\* what the present call of blocks_to_svg has written: the stream from its
\* last header on (earlier input files have left their documents before it)
CurOutput ==
    LET f == Fout
    IN  SubSeq(f, LastPosFrom(f, Len(f), "svg_header"), Len(f))

\* what the present call of blocks_to_svg has printed: the prints from the
\* last print of the limits on, all of them when debug < 0
CurStdout ==
    LET s == Prints
        p == LastPosFrom(s, Len(s), "print_limits")
    IN  IF p = 0 THEN s ELSE SubSeq(s, p, Len(s))

Info == svg_doc_info[1]

RECURSIVE PosFrom(_, _, _)
PosFrom(seq, i, t) ==
    IF i > Len(seq) THEN << >>
    ELSE (IF seq[i].t = t THEN <<i>> ELSE << >>) \o PosFrom(seq, i + 1, t)

\* the positions in seq of the tokens of type t
Positions(seq, t) == PosFrom(seq, 1, t)

Count(seq, t) == Len(Positions(seq, t))

\* the blocks the loop has been through
DoneBlocks == SubSeq(blocks, 1, idx - 1)

IsPresentStroke(b) == b.kind = "SceneLineItemBlock" /\ b.item # None
IsPresentGlyph(b) == b.kind = "SceneGlyphItemBlock" /\ b.item # None

DoneStrokes == SelectSeq(DoneBlocks, IsPresentStroke)
DoneGlyphs == SelectSeq(DoneBlocks, IsPresentGlyph)

\* one stroke group per stroke drawn, opened once and closed once
Grouped ==
    /\ Count(CurOutput, "g_open") = Len(DoneStrokes)
    /\ Count(CurOutput, "g_close") = Len(DoneStrokes)
    /\ \A k \in 1..Len(DoneStrokes) :
           Positions(CurOutput, "g_open")[k] < Positions(CurOutput, "g_close")[k]

\* the tokens between the k-th <g> and its </g>
Group(k) == SubSeq(CurOutput, Positions(CurOutput, "g_open")[k] + 1,
                   Positions(CurOutput, "g_close")[k] - 1)

IsVertex(tok) == tok.t = "vertex"
IsPointVertex(tok) == tok.t = "vertex" /\ tok.role = "point"
IsPathToken(tok) == tok.t \in {"polyline_open", "polyline_close"}

\* the vertices of the m-th sub-path of a group: those after its
\* <polyline ... points=" and before the next one
SubPath(g, m) ==
    LET po == Positions(g, "polyline_open")
        last == IF m < Len(po) THEN po[m + 1] - 1 ELSE Len(g)
    IN  SelectSeq(SubSeq(g, po[m] + 1, last), IsVertex)

CeilDiv(n, d) == (n + d - 1) \div d

Min(a, b) == IF a <= b THEN a ELSE b

\* m thousandths is the value v (in 1/Scale) to the nearest thousandth
Rounds3(m, v) == 2 * Abs(1000 * v - Scale * m) <= Scale

\* m thousandths is exactly the value v (in 1/Scale)
Exact3(m, v) == 1000 * v = Scale * m

\* a vertex token carries the position (x, y) translated by the offsets
EmittedAt(tok, pt) ==
    /\ Rounds3(tok.x, pt.x + Info.xpos_delta)
    /\ Rounds3(tok.y, pt.y + Info.ypos_delta)

\* ------------------------------------------------------------------- claims
\* a block that yields bounds: a stroke with a present Item and at least one
\* sample, or a highlight with a present Item
HasBounds(b) ==
    \/ IsPresentStroke(b) /\ Len(b.item[1].points) > 0
    \/ IsPresentGlyph(b)

NoBounds == \A i \in 1..Len(blocks) : ~HasBounds(blocks[i])

IsDrawingToken(tok) ==
    tok.t \in {"g_open", "polyline_open", "vertex", "rect", "text"}

\* C1: when no block of the document yields bounds, get_dimensions returns
\* width = 0 and height = 0 without raising, and blocks_to_svg goes on to
\* write the complete shell (header, page group, footer) and no drawing
\* element.
C1_Claim ==
    (SvgRan /\ NoBounds) =>
        /\ pc # "raised"
        /\ svg_doc_info # None
        /\ Info.width = 0
        /\ Info.height = 0
        /\ pc = "done" =>
               /\ Count(CurOutput, "svg_header") = 1
               /\ Count(CurOutput, "page_open") = 1
               /\ Count(CurOutput, "page_close") = 1
               /\ Count(CurOutput, "svg_close") = 1
               /\ SelectSeq(CurOutput, IsDrawingToken) = << >>

\* C2: every stroke with a present Item, n samples and segment length L is
\* written as exactly one stroke group holding exactly ceil(n / L)
\* sub-paths (polyline elements).
C2_SubPathCount ==
    InSvg =>
        /\ Grouped
        /\ \A k \in 1..Len(DoneStrokes) :
               LET item == DoneStrokes[k].item[1]
               IN  Count(Group(k), "polyline_open")
                       = CeilDiv(Len(item.points), item.segment_length)

\* a stroke of 3 samples with segment length 2 has been drawn as 2 sub-paths
C2_Witness ==
    /\ InSvg
    /\ \E k \in 1..Len(DoneStrokes) :
           /\ Len(DoneStrokes[k].item[1].points) = 3
           /\ DoneStrokes[k].item[1].segment_length = 2
           /\ Count(Group(k), "polyline_open") = 2

\* the sample that opens the m-th sub-path of a stroke (samples count from 1)
Opener(item, m) == (m - 1) * item.segment_length + 1

\* the number of samples of the m-th sub-path
OwnSamples(item, m) ==
    Min(item.segment_length, Len(item.points) - Opener(item, m) + 1)

\* sample q of the stroke is written with a connecting vertex before it:
\* it is not the first sample, and the translated x of the sample before it
\* is not the value -1 that draw_stroke keeps for "no previous sample"
IsJoined(item, q) ==
    q > 1 /\ item.points[q - 1].x + Info.xpos_delta # 0 - Scale

\* C3 as stated: every sub-path starts with the vertex of the sample that
\* opened it, with no connecting vertex before it, and holds exactly the
\* vertices of its own samples.
C3_Original ==
    InSvg =>
        \A k \in 1..Len(DoneStrokes) :
            LET item == DoneStrokes[k].item[1]
                g == Group(k)
            IN  \A m \in 1..Count(g, "polyline_open") :
                    LET vs == SubPath(g, m)
                    IN  /\ vs[1].role = "point"
                        /\ EmittedAt(vs[1], item.points[Opener(item, m)])
                        /\ Len(vs) = OwnSamples(item, m)

\* C3 amended: the first sub-path of a stroke starts with the vertex of its
\* opening sample; every later sub-path starts with the connecting vertex,
\* the translated position of the sample before its opening sample,
\* followed by the opening sample's own vertex (the connecting vertex is
\* missing only when that previous translated x is -1); a sub-path holds the
\* vertices of its own samples plus one connecting vertex per joined sample.
C3_SubPathStart ==
    InSvg =>
        \A k \in 1..Len(DoneStrokes) :
            LET item == DoneStrokes[k].item[1]
                g == Group(k)
            IN  \A m \in 1..Count(g, "polyline_open") :
                    LET vs == SubPath(g, m)
                        p == Opener(item, m)
                        own == OwnSamples(item, m)
                        joined == {q \in p..(p + own - 1) : IsJoined(item, q)}
                    IN  /\ Len(vs) = own + Cardinality(joined)
                        /\ Len(SelectSeq(vs, IsPointVertex)) = own
                        /\ IF IsJoined(item, p)
                           THEN /\ vs[1].role = "join"
                                /\ EmittedAt(vs[1], item.points[p - 1])
                                /\ vs[2].role = "point"
                                /\ EmittedAt(vs[2], item.points[p])
                           ELSE /\ vs[1].role = "point"
                                /\ EmittedAt(vs[1], item.points[p])
                        /\ m = 1 => vs[1].role = "point"

\* a stroke of 3 samples with segment length 2, none at translated x = -1,
\* has been drawn: sub-paths of 3 and 2 vertices, the second starting with
\* the connecting vertex
C3_Witness ==
    /\ InSvg
    /\ \E k \in 1..Len(DoneStrokes) :
           LET item == DoneStrokes[k].item[1]
           IN  /\ Len(item.points) = 3
               /\ item.segment_length = 2
               /\ IsJoined(item, 2) /\ IsJoined(item, 3)
               /\ Len(SubPath(Group(k), 1)) = 3
               /\ Len(SubPath(Group(k), 2)) = 2
               /\ SubPath(Group(k), 2)[1].role = "join"

\* C9: in the tokens of a stroke group, sub-path opens and closes strictly
\* alternate starting with an open, so that there are as many closes as
\* opens; the group is opened once and closed once.
C9_Claim ==
    InSvg =>
        /\ Grouped
        /\ \A k \in 1..Len(DoneStrokes) :
               LET s == SelectSeq(Group(k), IsPathToken)
               IN  /\ \A j \in 1..Len(s) :
                          s[j].t = IF j % 2 = 1 THEN "polyline_open"
                                                ELSE "polyline_close"
                   /\ Count(s, "polyline_close") = Count(s, "polyline_open")

\* C10: every sample after the first sample of its stroke is written with
\* the previous sample's translated position immediately before its own,
\* whatever the previous sample's coordinates; the first sample is written
\* with its own position only.
C10_Claim ==
    InSvg =>
        \A k \in 1..Len(DoneStrokes) :
            LET item == DoneStrokes[k].item[1]
                g == Group(k)
                pp == PosFrom(g, 1, "vertex")
                own == SelectSeq(pp, LAMBDA i : g[i].role = "point")
            IN  /\ Len(own) = Len(item.points)
                /\ \A q \in 1..Len(own) :
                       LET before == g[own[q] - 1]
                       IN  IF q = 1 THEN before.t # "vertex"
                           ELSE /\ before.t = "vertex"
                                /\ before.role = "join"
                                /\ EmittedAt(before, item.points[q - 1])

IsRect(tok) == tok.t = "rect"

\* the rectangle tokens written so far are those of the highlights drawn so
\* far, in order, each at its first rectangle's corner translated by the
\* offsets, with its size, at fill-opacity 0.5
RectsTranslated ==
    LET rs == SelectSeq(CurOutput, IsRect)
    IN  /\ Len(rs) = Len(DoneGlyphs)
        /\ \A k \in 1..Len(DoneGlyphs) :
               LET r == DoneGlyphs[k].item[1].rectangles[1]
               IN  /\ rs[k].x = r.x + Info.xpos_delta
                   /\ rs[k].y = r.y + Info.ypos_delta
                   /\ rs[k].w = r.w
                   /\ rs[k].h = r.h
                   /\ 2 * rs[k].fill_opacity = Scale

\* C4 as stated: one offset pair for the whole document; every stroke sample
\* and every highlight's first rectangle is written at exactly
\* (x + xOffset, y + yOffset).
C4_Original ==
    InSvg =>
        /\ svg_doc_info = get_dimensions(blocks)
        /\ Grouped
        /\ \A k \in 1..Len(DoneStrokes) :
               LET item == DoneStrokes[k].item[1]
                   own == SelectSeq(Group(k), IsPointVertex)
               IN  /\ Len(own) = Len(item.points)
                   /\ \A q \in 1..Len(own) :
                          /\ Exact3(own[q].x, item.points[q].x + Info.xpos_delta)
                          /\ Exact3(own[q].y, item.points[q].y + Info.ypos_delta)
        /\ RectsTranslated

\* C4 amended: one offset pair for the whole document; every stroke sample
\* is written at (x + xOffset, y + yOffset) rounded to three decimals (so
\* exactly when the sum has no more than three decimals), and every
\* highlight's first rectangle exactly at (x + xOffset, y + yOffset) with
\* its own width and height and fill-opacity 0.5.
C4_Translation ==
    InSvg =>
        /\ svg_doc_info = get_dimensions(blocks)
        /\ Grouped
        /\ \A k \in 1..Len(DoneStrokes) :
               LET item == DoneStrokes[k].item[1]
                   own == SelectSeq(Group(k), IsPointVertex)
               IN  /\ Len(own) = Len(item.points)
                   /\ \A q \in 1..Len(own) : EmittedAt(own[q], item.points[q])
        /\ RectsTranslated

\* the rectangle (10, 20, 5, 2) has been written at (712, 20) sized 5 by 2
\* under the offsets (702, 0), and a sample whose translated position has
\* more than three decimals has been written
C4_Witness ==
    /\ InSvg
    /\ Info.xpos_delta = 702 * Scale /\ Info.ypos_delta = 0
    /\ \E k \in 1..Len(DoneGlyphs) :
           /\ DoneGlyphs[k].item[1].rectangles[1] = R1
           /\ \E j \in 1..Len(CurOutput) :
                  /\ CurOutput[j].t = "rect"
                  /\ CurOutput[j].x = 712 * Scale /\ CurOutput[j].y = 20 * Scale
                  /\ CurOutput[j].w = 5 * Scale /\ CurOutput[j].h = 2 * Scale
    /\ \E k \in 1..Len(DoneStrokes) :
           \E q \in 1..Len(DoneStrokes[k].item[1].points) :
               LET pt == DoneStrokes[k].item[1].points[q]
               IN  (1000 * (pt.x + Info.xpos_delta)) % Scale # 0

\* C5: with the offsets computed for the document, every vertex and every
\* rectangle corner is written at x >= 0 and y >= 0.
C5_Claim ==
    InSvg =>
        \A j \in 1..Len(CurOutput) :
            /\ CurOutput[j].t = "vertex" => CurOutput[j].x >= 0 /\ CurOutput[j].y >= 0
            /\ CurOutput[j].t = "rect" =>
                   /\ CurOutput[j].x >= 0 /\ CurOutput[j].y >= 0
                   /\ CurOutput[j].x + CurOutput[j].w >= 0
                   /\ CurOutput[j].y + CurOutput[j].h >= 0

\* what one block contributes to the drawing: nothing unless it is a stroke
\* or highlight with a present Item, or a text block
RefEmission(b) ==
    IF IsPresentStroke(b) THEN draw_stroke(b, Info)
    ELSE IF IsPresentGlyph(b) THEN draw_highlight(b, Info)
    ELSE IF b.kind = "RootTextBlock" THEN draw_text(b, Info).out
    ELSE << >>

RECURSIVE RefBody(_)
RefBody(n) == IF n = 0 THEN << >>
              ELSE RefBody(n - 1) \o RefEmission(blocks[n])

IsUnrecognized(b) == b.kind \notin KnownKinds

\* what the block at which the loop raised had written before it raised
RefRaising ==
    IF pc = "raised" THEN draw_text(blocks[idx], Info).out ELSE << >>

\* C6: the drawing elements written are the emissions of the blocks in input
\* order; an unrecognized block, a PageInfoBlock and a stroke or highlight
\* with an absent Item contribute none and the blocks after them are still
\* drawn (the loop is only ever cut short at a text block, by the error of
\* draw_text); each unrecognized block gives one "not converting" warning.
C6_BlockOrder ==
    InSvg =>
        /\ SelectSeq(CurOutput, IsDrawingToken)
               = SelectSeq(RefBody(idx - 1) \o RefRaising, IsDrawingToken)
        /\ pc = "raised" => blocks[idx].kind = "RootTextBlock"
        /\ Count(CurOutput, "g_open") = Len(DoneStrokes)
        /\ Count(CurStdout, "not_converting")
               = Len(SelectSeq(DoneBlocks, IsUnrecognized))
        /\ pc = "done" => idx = Len(blocks) + 1

\* an unrecognized block between two strokes has been rendered: two stroke
\* groups and one warning
C6_Witness ==
    /\ to = <<"svg">> /\ pc = "done"
    /\ Len(blocks) = 3
    /\ IsPresentStroke(blocks[1])
    /\ IsUnrecognized(blocks[2])
    /\ IsPresentStroke(blocks[3])
    /\ Count(CurOutput, "g_open") = 2
    /\ Count(CurStdout, "not_converting") = 1

\* the coordinates that take part in the bounds
XsOf(b) ==
    IF IsPresentStroke(b)
    THEN {b.item[1].points[j].x : j \in 1..Len(b.item[1].points)}
    ELSE {b.item[1].rectangles[1].x,
          b.item[1].rectangles[1].x + b.item[1].rectangles[1].w}

YsOf(b) ==
    IF IsPresentStroke(b)
    THEN {b.item[1].points[j].y : j \in 1..Len(b.item[1].points)}
    ELSE {b.item[1].rectangles[1].y,
          b.item[1].rectangles[1].y + b.item[1].rectangles[1].h}

AllXs == UNION {XsOf(blocks[i]) : i \in {j \in 1..Len(blocks) : HasBounds(blocks[j])}}
AllYs == UNION {YsOf(blocks[i]) : i \in {j \in 1..Len(blocks) : HasBounds(blocks[j])}}

SetMin(S) == CHOOSE v \in S : \A w \in S : v <= w
SetMax(S) == CHOOSE v \in S : \A w \in S : v >= w

\* the least whole number of units not below v
RefCeil(v) ==
    LET k == CHOOSE k \in (v \div Scale)..(v \div Scale + 1) :
                 k * Scale >= v /\ (k - 1) * Scale < v
    IN  k * Scale

RefWidth == RefCeil(SetMax(AllXs) - SetMin(AllXs))

RefHeight ==
    IF SetMin(AllYs) >= 0 THEN RefCeil(SetMax(AllYs) - SetMin(AllYs))
    ELSE RefCeil(SetMax(AllYs) - SetMin(AllYs)) - Abs(SetMin(AllYs))

RefXOffset == IF 2 * 702 * Scale >= RefWidth THEN 702 * Scale
              ELSE RefWidth \div 2

\* C7: for a document that yields bounds, get_dimensions returns
\* width = ceil(xmax - xmin), xOffset = max(702, width / 2), yOffset = 0 and
\* height = ceil(ymax - ymin), less |ymin| when ymin < 0, over the samples of
\* present strokes and the corners of the first rectangle of present
\* highlights.
C7_Dimensions ==
    (SvgRan /\ ~NoBounds) =>
        /\ svg_doc_info # None
        /\ svg_doc_info = <<[height |-> RefHeight, width |-> RefWidth,
                             xpos_delta |-> RefXOffset, ypos_delta |-> 0]>>

\* dimensions have been computed for a document with content at negative y,
\* wider than the screen, holding a stroke and a highlight
C7_Witness ==
    /\ to = <<"svg">> /\ pc = "loop" /\ ~NoBounds
    /\ SetMin(AllYs) < 0
    /\ Info.height = RefCeil(SetMax(AllYs) - SetMin(AllYs)) + SetMin(AllYs)
    /\ Info.xpos_delta > 702 * Scale
    /\ \E i \in 1..Len(blocks) : IsPresentGlyph(blocks[i])
    /\ \E i \in 1..Len(blocks) : IsPresentStroke(blocks[i])

\* the line the formatter is to write for one paragraph
ExpectedLine(p) ==
    LET line == Strip(p.text)
    IN  IF line = << >> THEN << >>
        ELSE (IF p.style = "HEADING" THEN <<35, 32>> \o line
              ELSE IF p.style = "BOLD" THEN <<42, 42>> \o line \o <<42, 42>>
              ELSE IF p.style = "BULLET" THEN <<42, 32>> \o line
              ELSE IF p.style = "BULLET2" THEN <<32, 32, 42, 32>> \o line
              ELSE line)
             \o <<10, 10>>

RECURSIVE ExpectedParas(_, _)
ExpectedParas(ps, n) ==
    IF n = 0 THEN << >> ELSE ExpectedParas(ps, n - 1) \o ExpectedLine(ps[n])

RECURSIVE ExpectedFout(_)
ExpectedFout(n) ==
    IF n = 0 THEN << >>
    ELSE ExpectedFout(n - 1)
         \o (IF blocks[n].kind = "RootTextBlock"
             THEN ExpectedParas(blocks[n].value.paras,
                                Len(blocks[n].value.paras))
             ELSE << >>)

\* C8: every paragraph with non-empty trimmed text gives one line and a blank
\* line in the CurOutput document whatever its style (bare text for plain and
\* for an unrecognized style); a paragraph with empty trimmed text gives
\* nothing there and one diagnostic.
C8_Claim ==
    (to = <<"markdown">> /\ pc = "done" /\ file_idx = 1) =>
        /\ Fout = ExpectedFout(Len(blocks))
        /\ Count(Prints, "blank_line")
               = Cardinality(UNION {
                     {<<i, j>> : j \in {n \in 1..Len(blocks[i].value.paras) :
                          Strip(blocks[i].value.paras[n].text) = << >>}} :
                     i \in {n \in 1..Len(blocks) :
                          blocks[n].kind = "RootTextBlock"}})

\* C11: the SvgDocInfo returned by get_dimensions has width >= 0 and
\* height >= 0 for every document, also when content lies at negative y.
C11_Claim ==
    (to = <<"svg">> /\ svg_doc_info # None) =>
        /\ Info.width >= 0
        /\ Info.height >= 0

====
